---- MODULE Spec2Model ----
(***************************************************************************)
(* A model of blackvueconcat.py: the session chunker (create_chunks), the  *)
(* overlap resolver (create_concat_file), the concatenation driver         *)
(* (process_chunks, process_videos, create_output_file), the retention     *)
(* sweeper (cleanup_files) and the top-level run.                          *)
(*                                                                         *)
(* Four specifications share the definitions:                             *)
(*   SpecChunks  the loop of create_chunks, one directory entry per step;  *)
(*   SpecConcat  the loop of create_concat_file, one video per step;       *)
(*   SpecSweep   the loop of cleanup_files, one directory entry per step;  *)
(*   Spec        whole runs of the program, one after the other.           *)
(***************************************************************************)
EXTENDS Integers, Sequences, FiniteSets, TLC

VARIABLES
    options,    \* the parsed command line (argparse namespace)
    files,      \* create_chunks: the matching entries of sorted(os.listdir) read so far
    chunks,     \* create_chunks: the list of chunks
    videos,     \* create_concat_file: its argument videos
    cc,         \* create_concat_file: where the call is, and its local variables
    prev_out,   \* what subprocess.run did for the video before the last one scanned
    last_out,   \* what subprocess.run did for the last video scanned
    workdir,    \* the work directory: file name -> content of the manifest
    outputdir,  \* the output directory: file name -> content of the merged video
    dirs,       \* which of the source, work and output directories exist
    today,      \* datetime.date.today(), in days since day 0
    pc,         \* run: where the program is
    pos,        \* process_chunks: the chunk and the camera being processed
    run_no,     \* the number of the current run of the program
    log,        \* what process_chunks of the current run did: calls, external calls, writes
    before,     \* the names in the work and output directories when the current run started
    sweep,      \* cleanup_files: the entries of its listing handled, and the failed removals
    mode        \* which part of the program this behaviour follows

vars == <<options, files, chunks, videos, cc, prev_out, last_out, workdir,
          outputdir, dirs, today, pc, pos, run_no, log, before, sweep, mode>>

\* the variables neither SpecChunks nor SpecConcat changes
runVars == <<outputdir, dirs, today, pc, pos, run_no, log, before, sweep>>

(***************************************************************************)
(* Bounds of the model.                                                    *)
(***************************************************************************)
\* entries of the source directory read by create_chunks in SpecChunks
MaxRecs == 4
\* largest distance, in seconds, between two successive recordings
MaxGap == 2
\* largest --consecutive-threshold tried
MaxThreshold == 1
\* second of day 0 at which the first recording is taken (two seconds before midnight)
StartTime == 86398
\* videos in the list given to create_concat_file in SpecConcat
MaxVideos == 3
\* lines of standard output of one fingerprint call
MaxLines == 2
\* entries of the source directory in Spec
MaxRunFiles == 3
\* largest --concat-threshold and largest --retention tried in Spec
MaxConcatThreshold == 1
MaxRetention == 1
\* runs of the program in Spec
MaxRuns == 2
\* files of one directory that os.remove fails to delete in one sweep
MaxRemoveFailures == 1

\* days between the oldest file and the latest day of a sweep in SpecSweep,
\* beyond the largest retention
MaxAge == 2

\* datetime.timedelta: seconds in a day
SecondsPerDay == 86400

(***************************************************************************)
(* Recordings.  A file name <YYYYMMDD_HHMMSS>_<TYPE>.<ext> is parsed into  *)
(* obj = {datetime, type, ext}.  datetime is the number of seconds since   *)
(* midnight of day 0; type is the sequence of its characters, so that      *)
(* startswith and endswith are what the code computes.                     *)
(***************************************************************************)
\* The kinds of file the camera writes, in the order sorted() gives their
\* names at one timestamp: ..._IF.mp4 < ..._NF.mp4 < ..._NF.thm < ..._NR.mp4
KindOrder ==
    << [type |-> <<"I", "F">>, ext |-> "mp4"],
       [type |-> <<"N", "F">>, ext |-> "mp4"],
       [type |-> <<"N", "F">>, ext |-> "thm"],
       [type |-> <<"N", "R">>, ext |-> "mp4"] >>

Obj(dt, k) == [datetime |-> dt, type |-> KindOrder[k].type, ext |-> KindOrder[k].ext]

KindIndex(obj) ==
    CHOOSE k \in 1..Len(KindOrder) :
        KindOrder[k].type = obj.type /\ KindOrder[k].ext = obj.ext

\* sorted(os.listdir(source_dir)): names compare by timestamp, then type, then ext
NameLess(a, b) ==
    \/ a.datetime < b.datetime
    \/ a.datetime = b.datetime /\ KindIndex(a) < KindIndex(b)

\* the entries that can follow the listing fs in the sorted directory listing
NextEntries(fs) ==
    IF Len(fs) = 0
    THEN {Obj(StartTime, k) : k \in 1..Len(KindOrder)}
    ELSE {o \in {Obj(fs[Len(fs)].datetime + g, k) : g \in 0..MaxGap, k \in 1..Len(KindOrder)} :
             NameLess(fs[Len(fs)], o)}

StartsWith(type, c) == Len(type) > 0 /\ type[1] = c
EndsWith(type, c) == Len(type) > 0 /\ type[Len(type)] = c

Last(s) == s[Len(s)]

(***************************************************************************)
(* create_chunks, lines 89-117: what one iteration does to chunks.         *)
(***************************************************************************)
\* mutant of SameInstant: the same-timestamp test of line 94 left out
SameInstantNever(obj, last) == FALSE

\* line 94: obj['datetime'] == chunks[-1][-1]['datetime']
SameInstant(obj, last) == obj.datetime = last.datetime

\* line 98: int((obj['datetime'] - chunks[-1][-1]['datetime']).total_seconds());
\* both datetimes have second resolution, so int() truncates nothing
Duration(obj, last) == obj.datetime - last.datetime

\* mutant of Consecutive: the threshold taken one second too wide
ConsecutiveOffByOne(duration, opts) == duration <= opts.consecutive_threshold + 1

\* mutant of Consecutive: < for <=
ConsecutiveStrict(duration, opts) == duration < opts.consecutive_threshold

\* line 99
Consecutive(duration, opts) == duration <= opts.consecutive_threshold

\* mutant of InitialImpact: the flag not looked at
InitialImpactIgnored(opts) == FALSE

\* line 100
InitialImpact(opts) == opts.initial_impact

\* mutant of ImpactFlag: the first member of the chunk speaks for all
ImpactFlagOfFirst(chunk) == IF StartsWith(chunk[1].type, "I") THEN Len(chunk) ELSE 0

\* lines 103-106: impact_flag
ImpactFlag(chunk) == Cardinality({i \in 1..Len(chunk) : StartsWith(chunk[i].type, "I")})

\* mutant of AllImpact: "no impact recording" for "only impact recordings"
AllImpactNone(chunk) == ImpactFlag(chunk) = 0

\* line 107
AllImpact(chunk) == Len(chunk) = ImpactFlag(chunk)

\* mutant of AppendToLast: obj put in front of the last chunk
PrependToLast(cs, obj) == [cs EXCEPT ![Len(cs)] = <<obj>> \o @]

\* chunks[-1].append(obj)
AppendToLast(cs, obj) == [cs EXCEPT ![Len(cs)] = Append(@, obj)]

\* mutant of NewChunk: the last chunk emptied and used again
NewChunkReplacesLast(cs, obj) ==
    IF Len(cs) = 0 THEN <<<<obj>>>> ELSE [cs EXCEPT ![Len(cs)] = <<obj>>]

\* chunks.append([]); chunks[-1].append(obj)
NewChunk(cs, obj) == Append(cs, <<obj>>)

ChunkAppend(cs, obj, opts) ==
    IF Len(cs) = 0 THEN NewChunk(cs, obj)
    ELSE IF SameInstant(obj, Last(Last(cs))) THEN AppendToLast(cs, obj)
    ELSE IF Consecutive(Duration(obj, Last(Last(cs))), opts)
         THEN IF InitialImpact(opts) THEN AppendToLast(cs, obj)
              ELSE IF AllImpact(Last(cs))
                   THEN IF StartsWith(obj.type, "I")
                        THEN AppendToLast(cs, obj)
                        ELSE NewChunk(cs, obj)
                   ELSE AppendToLast(cs, obj)
         ELSE NewChunk(cs, obj)

\* create_chunks as a whole: the fold of ChunkAppend over the listing
RECURSIVE CreateChunksFrom(_, _, _)
CreateChunksFrom(cs, fs, opts) ==
    IF Len(fs) = 0 THEN cs
    ELSE CreateChunksFrom(ChunkAppend(cs, fs[1], opts), Tail(fs), opts)

CreateChunks(fs, opts) == CreateChunksFrom(<<>>, fs, opts)

(***************************************************************************)
(* process_chunks, lines 124-125: the names of a chunk's derived files.    *)
(***************************************************************************)
\* mutant of Strftime: the seconds left out of the format ('%Y%m%d_%H%M')
StrftimeNoSeconds(dt) ==
    << dt \div SecondsPerDay,
       (dt % SecondsPerDay) \div 3600,
       ((dt % SecondsPerDay) % 3600) \div 60,
       0 >>

\* datetime.strftime('%Y%m%d_%H%M%S'): the date, hour, minute and second fields
Strftime(dt) ==
    << dt \div SecondsPerDay,
       (dt % SecondsPerDay) \div 3600,
       ((dt % SecondsPerDay) % 3600) \div 60,
       dt % 60 >>

TimeStart(chunk) == Strftime(chunk[1].datetime)
TimeEnd(chunk) == Strftime(Last(chunk).datetime)

(***************************************************************************)
(* process_videos, lines 148-149: the names of the derived files.          *)
(***************************************************************************)
ConcatFilename(time_start, time_end, camera) == <<time_start, time_end, camera, "con">>
OutputFilename(time_start, time_end, camera) == <<time_start, time_end, camera, "mp4">>

\* os.path.join(video['dir'], video['filename'])
VideoPath(video) == <<Strftime(video.datetime), video.type, video.ext>>

(***************************************************************************)
(* The fingerprint call of create_concat_file, lines 173-187.  What        *)
(* subprocess.run does is the environment's choice: it raises (the tool    *)
(* cannot be launched), or it returns a result with a return code and the  *)
(* framemd5 lines the tool wrote.  A line is the time base line            *)
(* "#tb 0: 1/2" or a frame line; the frame on line p has raw pts p.        *)
(***************************************************************************)
TbLine == [kind |-> "tb", a |-> 1, b |-> 2, md5 |-> ""]
FrameLine(p, h) == [kind |-> "frame", a |-> p, b |-> 0, md5 |-> h]

Hashes == {"a", "b"}
Symbols == Hashes \cup {"#tb"}

LineOf(sym, p) == IF sym = "#tb" THEN TbLine ELSE FrameLine(p, sym)

Stdouts ==
    UNION {{[p \in 1..n |-> LineOf(syms[p], p)] : syms \in [1..n -> Symbols]} : n \in 0..MaxLines}

Raised == [raised |-> TRUE, returncode |-> 1, stdout |-> <<>>]

Outcomes ==
    {Raised} \cup [raised : {FALSE}, returncode : {0, 1}, stdout : Stdouts]

\* no call made yet (the ghost variables' and result's initial value)
NoOutcome == [raised |-> FALSE, returncode |-> 0, stdout |-> <<>>]

(***************************************************************************)
(* create_concat_file, lines 188-196: the scan of result.stdout.           *)
(***************************************************************************)
RECURSIVE Gcd(_, _)
Gcd(x, y) == IF y = 0 THEN x ELSE Gcd(y, x % y)

\* float(splitted[2]) * tb_num / tb_den, as the fraction in lowest terms
PtsTime(pts, tb_num, tb_den) ==
    LET g == Gcd(pts * tb_num, tb_den)
    IN  <<(pts * tb_num) \div g, tb_den \div g>>

\* inpoint = 0
Zero == <<0, 1>>

\* mutant of ScanLine: the first match kept instead of the last
ScanLineFirstMatch(s, line, md5_last_frame) ==
    IF line.kind = "tb"
    THEN [s EXCEPT !.tb_num = line.a, !.tb_den = line.b]
    ELSE [s EXCEPT !.md5 = line.md5,
                   !.inpoint = IF line.md5 = md5_last_frame /\ @ = Zero
                               THEN PtsTime(line.a, s.tb_num, s.tb_den)
                               ELSE @]

\* lines 190-196: one line of the output
ScanLine(s, line, md5_last_frame) ==
    IF line.kind = "tb"
    THEN [s EXCEPT !.tb_num = line.a, !.tb_den = line.b]
    ELSE [s EXCEPT !.md5 = line.md5,
                   !.inpoint = IF line.md5 = md5_last_frame
                               THEN PtsTime(line.a, s.tb_num, s.tb_den)
                               ELSE @]

RECURSIVE ScanFrom(_, _, _)
ScanFrom(s, lines, md5_last_frame) ==
    IF Len(lines) = 0 THEN s
    ELSE ScanFrom(ScanLine(s, lines[1], md5_last_frame), Tail(lines), md5_last_frame)

\* lines 188-196: inpoint, tb_num, tb_den = 0, 1, 1, then the loop over the
\* lines; md5 is the function's local variable, kept from the videos before
ScanStdout(stdout, md5_last_frame, md5) ==
    ScanFrom([inpoint |-> Zero, tb_num |-> 1, tb_den |-> 1, md5 |-> md5],
             stdout, md5_last_frame)

(***************************************************************************)
(* create_concat_file, lines 164-214.  cc.pos is "entry" (called),         *)
(* "loop" (in the for loop, cc.n videos done), "returned" or "raised" (an  *)
(* exception left the function).  A local variable not yet assigned is     *)
(* "unbound" (md5) or has bound = FALSE (result).                          *)
(***************************************************************************)
Called ==
    [pos |-> "entry", n |-> 0, records |-> <<>>, md5_last_frame |-> "None",
     md5 |-> "unbound", result |-> [bound |-> FALSE, out |-> NoOutcome]]

\* mutant of SkipExisting: the overwrite flag read the wrong way round
SkipExistingInverted(wd, filename, overwrite) == filename \in DOMAIN wd /\ overwrite

\* lines 165-168 (and 218-221 in create_output_file)
SkipExisting(wd, filename, overwrite) == filename \in DOMAIN wd /\ ~overwrite

\* mutant of NoOutput: the flag not looked at
NoOutputIgnored(opts) == FALSE

\* lines 204 and 223: if no_output
NoOutput(opts) == opts.no_output

\* lines 170-171
EnterLoop(c) == [c EXCEPT !.pos = "loop", !.records = <<>>, !.md5_last_frame = "None"]

\* mutant of FileStep: a video whose fingerprint exits non-zero is left out
FileStepDropFailed(c, video, out) ==
    IF out.raised
    THEN IF ~c.result.bound
         THEN [c EXCEPT !.pos = "raised"]
         ELSE [c EXCEPT !.n = @ + 1]
    ELSE LET scan == ScanStdout(out.stdout, c.md5_last_frame, c.md5)
             got == [bound |-> TRUE, out |-> out]
         IN  IF scan.md5 = "unbound"
             THEN [c EXCEPT !.result = got, !.pos = "raised"]
             ELSE [c EXCEPT !.result = got,
                            !.n = @ + 1,
                            !.md5 = scan.md5,
                            !.md5_last_frame = scan.md5,
                            !.records = IF out.returncode # 0 THEN @
                                        ELSE Append(@, <<VideoPath(video), scan.inpoint>>)]

\* lines 172-202: one iteration of the for loop, on video, when subprocess.run
\* does out
FileStep(c, video, out) ==
    IF out.raised
    THEN \* lines 183-187: the handler reads result, which the failed call did
         \* not assign: UnboundLocalError when no earlier call assigned it,
         \* else the earlier result is logged and the video is skipped
         IF ~c.result.bound
         THEN [c EXCEPT !.pos = "raised"]
         ELSE [c EXCEPT !.n = @ + 1]
    ELSE LET scan == ScanStdout(out.stdout, c.md5_last_frame, c.md5)
             got == [bound |-> TRUE, out |-> out]
         IN  \* line 197: md5_last_frame = md5 raises UnboundLocalError when no
             \* frame line was ever read
             IF scan.md5 = "unbound"
             THEN [c EXCEPT !.result = got, !.pos = "raised"]
             ELSE [c EXCEPT !.result = got,
                            !.n = @ + 1,
                            !.md5 = scan.md5,
                            !.md5_last_frame = scan.md5,
                            !.records = Append(@, <<VideoPath(video), scan.inpoint>>)]

\* lines 208-210: the manifest, two lines for each record
RECURSIVE Manifest(_)
Manifest(records) ==
    IF Len(records) = 0 THEN <<>>
    ELSE <<<<"file", records[1][1]>>, <<"inpoint", records[1][2]>>>> \o Manifest(Tail(records))

\* open(os.path.join(path, filename), 'w') and the writes
WriteFile(dir, filename, content) ==
    [f \in DOMAIN dir \cup {filename} |-> IF f = filename THEN content ELSE dir[f]]

NoFiles == [f \in {} |-> <<>>]

(***************************************************************************)
(* process_chunks and process_videos, lines 120-162.                       *)
(***************************************************************************)
\* lines 131-138: the mp4 files of a chunk whose type ends with the camera letter
VideosOf(chunk, camera) ==
    SelectSeq(chunk, LAMBDA item : item.ext = "mp4" /\ EndsWith(item.type, camera))

\* mutant of BelowThreshold: < for <=
BelowThresholdStrict(vs, opts) == Len(vs) < opts.concat_threshold

\* line 154
BelowThreshold(vs, opts) == Len(vs) <= opts.concat_threshold

\* mutant of ProcessVideosResult: the result of create_output_file passed on
ProcessVideosPassesResult(created) == created

\* lines 158-162: process_videos returns True whatever create_concat_file and
\* create_output_file returned
ProcessVideosResult(created) == TRUE

\* lines 172-202: the for loop of create_concat_file, outs[i] being what
\* subprocess.run does for the i-th video
RECURSIVE ConcatLoop(_, _, _)
ConcatLoop(c, vs, outs) ==
    IF c.pos = "raised" \/ c.n = Len(vs) THEN c
    ELSE ConcatLoop(FileStep(c, vs[c.n + 1], outs[c.n + 1]), vs, outs)

\* lines 121, 140-145: after process_videos returned result for pos, the
\* place process_chunks goes to; "cleanup" when the loop ends or breaks
AfterVideos(p, result, cs) ==
    IF ~result THEN [pc |-> "cleanup", pos |-> p]
    ELSE IF p.camera = "F" THEN [pc |-> "videos", pos |-> [p EXCEPT !.camera = "R"]]
    ELSE IF p.chunk < Len(cs) THEN [pc |-> "videos", pos |-> [chunk |-> p.chunk + 1, camera |-> "F"]]
    ELSE [pc |-> "cleanup", pos |-> p]

(***************************************************************************)
(* create_output_file, lines 216-251.  What the merge call does is the     *)
(* environment's choice: it raises, or it returns a return code, having    *)
(* written the output file or not (always, when the code is 0).            *)
(***************************************************************************)
MergeOutcomes ==
    { [raised |-> TRUE,  returncode |-> 1, wrote |-> FALSE],
      [raised |-> FALSE, returncode |-> 0, wrote |-> TRUE],
      [raised |-> FALSE, returncode |-> 1, wrote |-> FALSE],
      [raised |-> FALSE, returncode |-> 1, wrote |-> TRUE] }

\* lines 245-251: the value create_output_file returns after the merge call
MergeResult(m) == m.returncode = 0

(***************************************************************************)
(* cleanup_files, lines 258-275.                                           *)
(***************************************************************************)
\* lines 264-266: PATTERN_WORKFILES and PATTERN_OUTPUTFILES match a name
\* <start>-<end>_<camera>.<ext>, here the tuple <<start, end, camera, ext>>; the
\* name of a recording, <<timestamp, type, ext>>, has no "-" and does not match
PatternMatches(filename) == Len(filename) = 4

\* lines 267-268: the date of the session start in a derived file's name
StartDate(filename) == filename[1][1]

\* mutant of Expired: >= for >
ExpiredAtRetention(filename, day, retention) == day - StartDate(filename) >= retention

\* line 269: not (today_obj - date_obj <= timedelta(days=retention))
Expired(filename, day, retention) == ~(day - StartDate(filename) <= retention)

\* the directory without the files of gone
RemoveFiles(dir, gone) == [f \in DOMAIN dir \ gone |-> dir[f]]

(***************************************************************************)
(* The command line.  --consecutive-threshold is any int (type=int), so a  *)
(* negative value is accepted.                                             *)
(***************************************************************************)
\* DEFAULT_VALUES and the store_true flags
DefaultOptions ==
    [consecutive_threshold |-> 64, concat_threshold |-> 2, retention |-> 14,
     initial_impact |-> FALSE, no_output |-> FALSE, overwrite |-> FALSE]

Thresholds == (0 - 1)..MaxThreshold

ChunkOptions ==
    {[DefaultOptions EXCEPT !.consecutive_threshold = t, !.initial_impact = i] :
        t \in Thresholds, i \in BOOLEAN}

ConcatOptions ==
    {[DefaultOptions EXCEPT !.no_output = n, !.overwrite = o] : n \in BOOLEAN, o \in BOOLEAN}

RunOptions ==
    [consecutive_threshold : {MaxThreshold}, concat_threshold : 0..MaxConcatThreshold,
     retention : 0..MaxRetention, initial_impact : {FALSE},
     no_output : BOOLEAN, overwrite : BOOLEAN]

\* cleanup_files not called
NotSweeping == [n |-> 0, failed |-> {}]

\* the values of the variables of Spec where the program is not run
RunIdle ==
    /\ outputdir = NoFiles
    /\ dirs = [source |-> TRUE, work |-> TRUE, output |-> TRUE]
    /\ today = 0
    /\ pc = "idle"
    /\ pos = [chunk |-> 1, camera |-> "F"]
    /\ run_no = 0
    /\ log = {}
    /\ before = [work |-> {}, output |-> {}]
    /\ sweep = NotSweeping

(***************************************************************************)
(* SpecChunks: create_chunks reading the sorted listing entry by entry.    *)
(***************************************************************************)
InitChunks ==
    /\ mode = "chunks"
    /\ options \in ChunkOptions
    /\ files = <<>>
    /\ chunks = <<>>
    /\ videos = <<>>
    /\ cc = Called
    /\ prev_out = NoOutcome
    /\ last_out = NoOutcome
    /\ workdir = NoFiles
    /\ RunIdle

\* one iteration of the for loop of create_chunks on the next matching entry
ChunkStep ==
    /\ mode = "chunks"
    /\ Len(files) < MaxRecs
    /\ \E obj \in NextEntries(files) :
          /\ files' = Append(files, obj)
          /\ chunks' = ChunkAppend(chunks, obj, options)
    /\ UNCHANGED <<options, mode, videos, cc, prev_out, last_out, workdir>>
    /\ UNCHANGED runVars

NextChunks == ChunkStep

SpecChunks == InitChunks /\ [][NextChunks]_vars

(***************************************************************************)
(* SpecConcat: one call of create_concat_file, one video per step.  The    *)
(* list is MaxVideos or fewer front videos of one chunk, a second apart.   *)
(***************************************************************************)
VideoList(n) == [i \in 1..n |-> Obj(StartTime + i - 1, 2)]

TheConcatFile(vs) ==
    ConcatFilename(Strftime(vs[1].datetime), Strftime(Last(vs).datetime), "F")

\* a manifest left by an earlier run
OldManifest == <<<<"file", VideoPath(Obj(StartTime, 2))>>, <<"inpoint", Zero>>>>

InitConcat ==
    /\ mode = "concat"
    /\ options \in ConcatOptions
    /\ files = <<>>
    /\ chunks = <<>>
    /\ videos \in {VideoList(n) : n \in 1..MaxVideos}
    /\ cc = Called
    /\ prev_out = NoOutcome
    /\ last_out = NoOutcome
    /\ workdir \in {NoFiles, WriteFile(NoFiles, TheConcatFile(videos), OldManifest)}
    /\ RunIdle

\* lines 165-168: the manifest exists and overwrite is off
ConcatSkip ==
    /\ mode = "concat"
    /\ cc.pos = "entry"
    /\ SkipExisting(workdir, TheConcatFile(videos), options.overwrite)
    /\ cc' = [cc EXCEPT !.pos = "returned"]
    /\ UNCHANGED <<options, files, chunks, videos, prev_out, last_out, workdir, mode>>
    /\ UNCHANGED runVars

\* lines 170-171
ConcatBegin ==
    /\ mode = "concat"
    /\ cc.pos = "entry"
    /\ ~SkipExisting(workdir, TheConcatFile(videos), options.overwrite)
    /\ cc' = EnterLoop(cc)
    /\ UNCHANGED <<options, files, chunks, videos, prev_out, last_out, workdir, mode>>
    /\ UNCHANGED runVars

\* lines 172-202: one iteration of the for loop
Fingerprint ==
    /\ mode = "concat"
    /\ cc.pos = "loop"
    /\ cc.n < Len(videos)
    /\ \E out \in Outcomes :
          /\ cc' = FileStep(cc, videos[cc.n + 1], out)
          /\ prev_out' = last_out
          /\ last_out' = out
    /\ UNCHANGED <<options, files, chunks, videos, workdir, mode>>
    /\ UNCHANGED runVars

\* lines 204-206
ConcatNoOutput ==
    /\ mode = "concat"
    /\ cc.pos = "loop"
    /\ cc.n = Len(videos)
    /\ NoOutput(options)
    /\ cc' = [cc EXCEPT !.pos = "returned"]
    /\ UNCHANGED <<options, files, chunks, videos, prev_out, last_out, workdir, mode>>
    /\ UNCHANGED runVars

\* lines 208-214
ConcatWrite ==
    /\ mode = "concat"
    /\ cc.pos = "loop"
    /\ cc.n = Len(videos)
    /\ ~NoOutput(options)
    /\ workdir' = WriteFile(workdir, TheConcatFile(videos), Manifest(cc.records))
    /\ cc' = [cc EXCEPT !.pos = "returned"]
    /\ UNCHANGED <<options, files, chunks, videos, prev_out, last_out, mode>>
    /\ UNCHANGED runVars

NextConcat ==
    \/ ConcatSkip
    \/ ConcatBegin
    \/ Fingerprint
    \/ ConcatNoOutput
    \/ ConcatWrite

SpecConcat == InitConcat /\ [][NextConcat]_vars

(***************************************************************************)
(* SpecSweep: one call of cleanup_files (lines 258-275) on a directory,    *)
(* one entry of its sorted listing per step.  The directory holds derived  *)
(* files of a session of day 0 and of a session of day 1 and a recording;  *)
(* an entry is a file or a directory.                                      *)
(***************************************************************************)
\* the names the directory may hold, in the order sorted() gives them
SweepNames ==
    << ConcatFilename(Strftime(StartTime), Strftime(StartTime), "F"),
       OutputFilename(Strftime(StartTime), Strftime(StartTime), "F"),
       VideoPath(Obj(StartTime, 2)),
       ConcatFilename(Strftime(StartTime + 2), Strftime(StartTime + 2), "F") >>

\* what os.path.isfile tells apart
IsDirectory == <<"directory">>
IsFile == <<"file">>

\* sorted(os.listdir(directory)) of a directory holding the names idx of SweepNames
RECURSIVE SweepListing(_, _)
SweepListing(i, idx) ==
    IF i > Len(SweepNames) THEN <<>>
    ELSE (IF i \in idx THEN <<SweepNames[i]>> ELSE <<>>) \o SweepListing(i + 1, idx)

\* --retention is any int
SweepRetentions == (0 - 1)..MaxRetention

SweepOptions == {[DefaultOptions EXCEPT !.retention = r] : r \in SweepRetentions}

SweepDays == 0..(MaxRetention + MaxAge)

InitSweep ==
    /\ mode = "sweep"
    /\ options \in SweepOptions
    /\ today \in SweepDays
    /\ \E idx \in SUBSET (1..Len(SweepNames)) :
          /\ files = SweepListing(1, idx)
          /\ workdir \in [{SweepNames[i] : i \in idx} -> {IsFile, IsDirectory}]
    /\ chunks = <<>>
    /\ videos = <<>>
    /\ cc = Called
    /\ prev_out = NoOutcome
    /\ last_out = NoOutcome
    /\ outputdir = NoFiles
    /\ dirs = [source |-> TRUE, work |-> TRUE, output |-> TRUE]
    /\ pc = "sweep"
    /\ pos = [chunk |-> 1, camera |-> "F"]
    /\ run_no = 0
    /\ log = {}
    /\ before = [work |-> {}, output |-> {}]
    /\ sweep = NotSweeping

\* the entry the for loop of line 260 is at
SweepEntry == files[sweep.n + 1]

SweepGoOn == sweep' = [sweep EXCEPT !.n = @ + 1]

\* lines 261-263: not a file
SweepNotFile ==
    /\ mode = "sweep" /\ sweep.n < Len(files)
    /\ workdir[SweepEntry] # IsFile
    /\ SweepGoOn
    /\ UNCHANGED <<options, files, chunks, videos, cc, prev_out, last_out, workdir,
                   outputdir, dirs, today, pc, pos, run_no, log, before, mode>>

\* lines 264-266: the name does not match the pattern
SweepNoMatch ==
    /\ mode = "sweep" /\ sweep.n < Len(files)
    /\ workdir[SweepEntry] = IsFile
    /\ ~PatternMatches(SweepEntry)
    /\ SweepGoOn
    /\ UNCHANGED <<options, files, chunks, videos, cc, prev_out, last_out, workdir,
                   outputdir, dirs, today, pc, pos, run_no, log, before, mode>>

\* lines 267-270: the file is not older than the retention
SweepKeep ==
    /\ mode = "sweep" /\ sweep.n < Len(files)
    /\ workdir[SweepEntry] = IsFile
    /\ PatternMatches(SweepEntry)
    /\ ~Expired(SweepEntry, today, options.retention)
    /\ SweepGoOn
    /\ UNCHANGED <<options, files, chunks, videos, cc, prev_out, last_out, workdir,
                   outputdir, dirs, today, pc, pos, run_no, log, before, mode>>

\* lines 271-273: os.remove deletes the file
SweepRemove ==
    /\ mode = "sweep" /\ sweep.n < Len(files)
    /\ workdir[SweepEntry] = IsFile
    /\ PatternMatches(SweepEntry)
    /\ Expired(SweepEntry, today, options.retention)
    /\ workdir' = RemoveFiles(workdir, {SweepEntry})
    /\ SweepGoOn
    /\ UNCHANGED <<options, files, chunks, videos, cc, prev_out, last_out,
                   outputdir, dirs, today, pc, pos, run_no, log, before, mode>>

\* lines 271-275: os.remove raises, the error is logged and the loop goes on
SweepRemoveFails ==
    /\ mode = "sweep" /\ sweep.n < Len(files)
    /\ workdir[SweepEntry] = IsFile
    /\ PatternMatches(SweepEntry)
    /\ Expired(SweepEntry, today, options.retention)
    /\ sweep' = [sweep EXCEPT !.n = @ + 1, !.failed = @ \cup {SweepEntry}]
    /\ UNCHANGED <<options, files, chunks, videos, cc, prev_out, last_out, workdir,
                   outputdir, dirs, today, pc, pos, run_no, log, before, mode>>

NextSweep ==
    \/ SweepNotFile
    \/ SweepNoMatch
    \/ SweepKeep
    \/ SweepRemove
    \/ SweepRemoveFails

SpecSweep == InitSweep /\ [][NextSweep]_vars

(***************************************************************************)
(* Spec: runs of the program, one after the other, on a source directory   *)
(* that does not change.  The work and output directories start empty and  *)
(* keep what a run leaves.  What the external fingerprint call does in a   *)
(* run is one of: it raises; it reports one frame of hash "a"; it exits    *)
(* non-zero and reports nothing.                                           *)
(***************************************************************************)
\* the source directory of Spec holds no impact recording
RECURSIVE ListingsOfLen(_)
ListingsOfLen(n) ==
    IF n = 0 THEN {<<>>}
    ELSE UNION {{Append(fs, o) : o \in {e \in NextEntries(fs) : ~StartsWith(e.type, "I")}} :
                   fs \in ListingsOfLen(n - 1)}

RunListings == UNION {ListingsOfLen(n) : n \in 0..MaxRunFiles}

RunOutcomes ==
    { Raised,
      [raised |-> FALSE, returncode |-> 0, stdout |-> <<FrameLine(1, "a")>>],
      [raised |-> FALSE, returncode |-> 1, stdout |-> <<>>] }

\* the day of the last recording the bounds allow, and the days after it
LastDay == (StartTime + MaxRunFiles * MaxGap) \div SecondsPerDay
Days == LastDay..(LastDay + MaxRetention)

\* the files of a directory that a sweep on day has to delete
ExpiredFiles(dir, day) == {f \in DOMAIN dir : Expired(f, day, options.retention)}

\* the sets of files whose removal may fail in one sweep
RemoveFailures(gone) == {k \in SUBSET gone : Cardinality(k) <= MaxRemoveFailures}

DirsChoices ==
    { [source |-> TRUE,  work |-> TRUE,  output |-> TRUE],
      [source |-> FALSE, work |-> TRUE,  output |-> TRUE],
      [source |-> TRUE,  work |-> FALSE, output |-> TRUE],
      [source |-> TRUE,  work |-> TRUE,  output |-> FALSE] }

Init ==
    /\ mode = "run"
    /\ options \in RunOptions
    /\ files \in RunListings
    /\ chunks = <<>>
    /\ videos = <<>>
    /\ cc = Called
    /\ prev_out = NoOutcome
    /\ last_out = NoOutcome
    /\ workdir = NoFiles
    /\ outputdir = NoFiles
    /\ dirs \in DirsChoices
    /\ today = LastDay
    /\ pc = "start"
    /\ pos = [chunk |-> 1, camera |-> "F"]
    /\ run_no = 1
    /\ log = {}
    /\ before = [work |-> {}, output |-> {}]
    /\ sweep = NotSweeping

Event(op) == [run |-> run_no, op |-> op, chunk |-> pos.chunk, camera |-> pos.camera]

CurrentVideos == VideosOf(chunks[pos.chunk], pos.camera)
CurrentConcat ==
    ConcatFilename(TimeStart(chunks[pos.chunk]), TimeEnd(chunks[pos.chunk]), pos.camera)
CurrentOutput ==
    OutputFilename(TimeStart(chunks[pos.chunk]), TimeEnd(chunks[pos.chunk]), pos.camera)

\* process_chunks goes on after process_videos returned result
GoOn(result) ==
    /\ pc' = AfterVideos(pos, result, chunks).pc
    /\ pos' = AfterVideos(pos, result, chunks).pos

\* mutant of DirsExist: only the source directory looked for
DirsExistSourceOnly(d) == d.source

\* lines 279, 283, 287: os.path.exists of the three directories
DirsExist(d) == d.source /\ d.work /\ d.output

\* lines 279-291: a directory is missing, sys.exit()
RunExit ==
    /\ mode = "run" /\ pc = "start"
    /\ ~DirsExist(dirs)
    /\ pc' = "exit"
    /\ UNCHANGED <<sweep, options, files, chunks, videos, cc, prev_out, last_out, workdir,
                   outputdir, dirs, today, pos, run_no, log, before, mode>>

\* line 293: create_chunks; line 121: the first chunk, if any
RunCreateChunks ==
    /\ mode = "run" /\ pc = "start"
    /\ DirsExist(dirs)
    /\ chunks' = CreateChunks(files, options)
    /\ pc' = IF Len(chunks') = 0 THEN "cleanup" ELSE "videos"
    /\ pos' = [chunk |-> 1, camera |-> "F"]
    /\ UNCHANGED <<sweep, options, files, videos, cc, prev_out, last_out, workdir,
                   outputdir, dirs, today, run_no, log, before, mode>>

\* lines 154-156: the list is not longer than concat_threshold
VideosSkip ==
    /\ mode = "run" /\ pc = "videos"
    /\ BelowThreshold(CurrentVideos, options)
    /\ log' = log \cup {Event("process_videos")}
    /\ GoOn(TRUE)
    /\ UNCHANGED <<sweep, options, files, chunks, videos, cc, prev_out, last_out, workdir,
                   outputdir, dirs, today, run_no, before, mode>>

\* lines 158, 165-168: create_concat_file finds the manifest and returns
ConcatExisting ==
    /\ mode = "run" /\ pc = "videos"
    /\ ~BelowThreshold(CurrentVideos, options)
    /\ SkipExisting(workdir, CurrentConcat, options.overwrite)
    /\ log' = log \cup {Event("process_videos")}
    /\ pc' = "output"
    /\ UNCHANGED <<sweep, options, files, chunks, videos, cc, prev_out, last_out, workdir,
                   outputdir, dirs, today, pos, run_no, before, mode>>

\* lines 158, 170-214: create_concat_file scans the videos, and writes the
\* manifest unless an exception leaves it or no_output is set
ConcatScan ==
    /\ mode = "run" /\ pc = "videos"
    /\ ~BelowThreshold(CurrentVideos, options)
    /\ ~SkipExisting(workdir, CurrentConcat, options.overwrite)
    /\ \E outs \in [1..Len(CurrentVideos) -> RunOutcomes] :
          LET c == ConcatLoop(EnterLoop(Called), CurrentVideos, outs)
              scanned == IF Len(CurrentVideos) > 0 THEN {Event("fingerprint")} ELSE {}
          IN  IF c.pos = "raised"
              THEN /\ pc' = "raised"
                   /\ log' = log \cup {Event("process_videos")} \cup scanned
                   /\ UNCHANGED workdir
              ELSE IF NoOutput(options)
              THEN /\ pc' = "output"
                   /\ log' = log \cup {Event("process_videos")} \cup scanned
                   /\ UNCHANGED workdir
              ELSE /\ pc' = "output"
                   /\ log' = log \cup {Event("process_videos"), Event("manifest")} \cup scanned
                   /\ workdir' = WriteFile(workdir, CurrentConcat, Manifest(c.records))
    /\ UNCHANGED <<sweep, options, files, chunks, videos, cc, prev_out, last_out,
                   outputdir, dirs, today, pos, run_no, before, mode>>

\* lines 160, 218-221: create_output_file finds the output file and returns True
OutputExisting ==
    /\ mode = "run" /\ pc = "output"
    /\ SkipExisting(outputdir, CurrentOutput, options.overwrite)
    /\ GoOn(ProcessVideosResult(TRUE))
    /\ UNCHANGED <<sweep, options, files, chunks, videos, cc, prev_out, last_out, workdir,
                   outputdir, dirs, today, run_no, log, before, mode>>

\* lines 223-225: no_output, create_output_file returns None
OutputNoOutput ==
    /\ mode = "run" /\ pc = "output"
    /\ ~SkipExisting(outputdir, CurrentOutput, options.overwrite)
    /\ NoOutput(options)
    /\ GoOn(ProcessVideosResult(FALSE))
    /\ UNCHANGED <<sweep, options, files, chunks, videos, cc, prev_out, last_out, workdir,
                   outputdir, dirs, today, run_no, log, before, mode>>

\* lines 227-251: the merge call.  When it raises, the handler reads result,
\* which was never assigned in this function: UnboundLocalError leaves the run
Merge ==
    /\ mode = "run" /\ pc = "output"
    /\ ~SkipExisting(outputdir, CurrentOutput, options.overwrite)
    /\ ~NoOutput(options)
    /\ \E m \in MergeOutcomes :
          IF m.raised
          THEN /\ pc' = "raised"
               /\ log' = log \cup {Event("merge")}
               /\ UNCHANGED <<outputdir, pos>>
          ELSE /\ outputdir' =
                    IF m.wrote
                    THEN WriteFile(outputdir, CurrentOutput,
                                   <<m.returncode, workdir[CurrentConcat]>>)
                    ELSE outputdir
               /\ log' = log \cup {Event("merge")}
                             \cup (IF m.wrote THEN {Event("output")} ELSE {})
                             \cup (IF m.returncode # 0 THEN {Event("merge_failed")} ELSE {})
               /\ GoOn(ProcessVideosResult(MergeResult(m)))
    /\ UNCHANGED <<sweep, options, files, chunks, videos, cc, prev_out, last_out, workdir,
                   dirs, today, run_no, before, mode>>

\* lines 253-256: cleanup reads the date and sweeps the work and the output
\* directory; os.remove may fail (lines 272-275), and the file stays
Cleanup ==
    /\ mode = "run" /\ pc = "cleanup"
    /\ \E day \in {d \in Days : d >= today} :
          /\ today' = day
          /\ \E keptw \in RemoveFailures(ExpiredFiles(workdir, day)),
                kepto \in RemoveFailures(ExpiredFiles(outputdir, day)) :
                /\ workdir' = RemoveFiles(workdir, ExpiredFiles(workdir, day) \ keptw)
                /\ outputdir' = RemoveFiles(outputdir, ExpiredFiles(outputdir, day) \ kepto)
    /\ pc' = "done"
    /\ log' = {}
    /\ UNCHANGED <<sweep, options, files, chunks, videos, cc, prev_out, last_out,
                   dirs, pos, run_no, before, mode>>

\* the program is started again, with the same command line; a directory may
\* have gone or come back since
RunAgain ==
    /\ mode = "run" /\ pc \in {"done", "raised", "exit"}
    /\ run_no < MaxRuns
    /\ run_no' = run_no + 1
    /\ pc' = "start"
    /\ chunks' = <<>>
    /\ pos' = [chunk |-> 1, camera |-> "F"]
    /\ log' = {}
    /\ before' = [work |-> DOMAIN workdir, output |-> DOMAIN outputdir]
    /\ dirs' \in DirsChoices
    /\ UNCHANGED <<sweep, options, files, videos, cc, prev_out, last_out, workdir,
                   outputdir, today, mode>>

Next ==
    \/ RunExit
    \/ RunCreateChunks
    \/ VideosSkip
    \/ ConcatExisting
    \/ ConcatScan
    \/ OutputExisting
    \/ OutputNoOutput
    \/ Merge
    \/ Cleanup
    \/ RunAgain

Spec == Init /\ [][Next]_vars

(***************************************************************************)
(* Claims about create_chunks (checked under SpecChunks).                  *)
(***************************************************************************)
\* the chunks that hold a recording taken at datetime t
ChunksAt(t) == {c \in 1..Len(chunks) : \E i \in 1..Len(chunks[c]) : chunks[c][i].datetime = t}

\* the pairs (chunk, position) of two neighbours inside one chunk
Neighbours == {p \in (1..Len(chunks)) \X (1..MaxRecs) : p[2] < Len(chunks[p[1]])}

\* the gap between the first recording of chunk k + 1 and the last of chunk k
BoundaryGap(k) == chunks[k + 1][1].datetime - Last(chunks[k]).datetime

\* the gap between neighbours p[2] and p[2] + 1 of chunk p[1]
InnerGap(p) == chunks[p[1]][p[2] + 1].datetime - chunks[p[1]][p[2]].datetime

IsImpact(obj) == StartsWith(obj.type, "I")

\* C1: every recording read so far is in a chunk, and all the recordings that
\* share one timestamp are in exactly one chunk, whatever their roles,
\* extensions, the threshold and initial_impact.
C1_SameTimestampOneChunk ==
    \A i \in 1..Len(files) : Cardinality(ChunksAt(files[i].datetime)) = 1

\* C1 witness: two recordings of one timestamp and different roles share a
\* chunk under a negative threshold, after MaxRecs entries were read.
C1_Witness ==
    /\ Len(files) = MaxRecs
    /\ \E p \in Neighbours :
          /\ InnerGap(p) = 0
          /\ chunks[p[1]][p[2]].type # chunks[p[1]][p[2] + 1].type
          /\ options.consecutive_threshold < 0

\* C2 as stated: a recording whose gap g to the last recording of the current
\* chunk is greater than the threshold is never appended to that chunk.
C2_Original_GapAboveThresholdNeverAppended ==
    \A p \in Neighbours : ~(InnerGap(p) > options.consecutive_threshold)

\* C2 amended: a recording whose timestamp differs from that of the last
\* recording of the current chunk and whose gap is greater than the threshold
\* is never appended to that chunk.
C2_LaterRecordingAboveThresholdNeverAppended ==
    \A p \in Neighbours :
        InnerGap(p) # 0 => ~(InnerGap(p) > options.consecutive_threshold)

\* C2 witness: a recording with a gap above a non-negative threshold started a
\* new chunk after a chunk of several recordings.
C2_Witness ==
    \E k \in 1..(Len(chunks) - 1) :
        /\ BoundaryGap(k) > options.consecutive_threshold
        /\ options.consecutive_threshold >= 0
        /\ Len(chunks[k]) > 1

\* C3 as stated: a recording whose gap to the last recording of the current
\* chunk is exactly the threshold never starts a new chunk.
C3_Original_GapAtThresholdNeverSplits ==
    \A k \in 1..(Len(chunks) - 1) : BoundaryGap(k) # options.consecutive_threshold

\* C3 amended: a recording whose gap is exactly the threshold starts a new
\* chunk only when initial_impact is off, every recording of the current chunk
\* is impact-role and the recording is not.
C3_GapAtThresholdSplitsOnlyAfterAllImpact ==
    \A k \in 1..(Len(chunks) - 1) :
        BoundaryGap(k) = options.consecutive_threshold =>
            /\ ~options.initial_impact
            /\ \A i \in 1..Len(chunks[k]) : IsImpact(chunks[k][i])
            /\ ~IsImpact(chunks[k + 1][1])

\* C3 witness: a non-impact recording at a gap of exactly the threshold was
\* appended to a chunk that holds a non-impact recording.
C3_Witness ==
    /\ options.consecutive_threshold > 0
    /\ \E p \in Neighbours :
          /\ InnerGap(p) = options.consecutive_threshold
          /\ ~IsImpact(chunks[p[1]][p[2] + 1])
          /\ \E i \in 1..p[2] : ~IsImpact(chunks[p[1]][i])

\* C4 as stated: with initial_impact off no chunk holds a non-impact recording
\* all of whose predecessors in the chunk are impact-role.
C4_Original_AllImpactNeverAbsorbs ==
    ~options.initial_impact =>
        \A p \in Neighbours :
            ~IsImpact(chunks[p[1]][p[2] + 1]) =>
                \E i \in 1..p[2] : ~IsImpact(chunks[p[1]][i])

\* C4 amended: with initial_impact off, a non-impact recording all of whose
\* predecessors in its chunk are impact-role has the timestamp of the recording
\* before it (it came in by the same-instant rule, never by the gap rule).
C4_AllImpactAbsorbsOnlySameInstant ==
    ~options.initial_impact =>
        \A p \in Neighbours :
            (/\ ~IsImpact(chunks[p[1]][p[2] + 1])
             /\ \A i \in 1..p[2] : IsImpact(chunks[p[1]][i]))
                => InnerGap(p) = 0

\* C4 witness: with initial_impact off, a non-impact recording within the
\* threshold of an all-impact chunk of two recordings started a new chunk.
C4_Witness ==
    /\ ~options.initial_impact
    /\ \E k \in 1..(Len(chunks) - 1) :
          /\ BoundaryGap(k) <= options.consecutive_threshold
          /\ Len(chunks[k]) > 1
          /\ \A i \in 1..Len(chunks[k]) : IsImpact(chunks[k][i])
          /\ ~IsImpact(chunks[k + 1][1])

\* C10: no two distinct chunks have the same (time_start, time_end) pair, the
\* pair from which process_videos names the derived files of a chunk.
C10_ChunkNamesUnique ==
    \A i, j \in 1..Len(chunks) :
        i # j => <<TimeStart(chunks[i]), TimeEnd(chunks[i])>>
                    # <<TimeStart(chunks[j]), TimeEnd(chunks[j])>>

\* C10 witness: two successive chunks of one timestamp each, one second apart.
C10_Witness ==
    \E k \in 1..(Len(chunks) - 1) :
        /\ BoundaryGap(k) = 1
        /\ TimeStart(chunks[k]) = TimeEnd(chunks[k])
        /\ TimeStart(chunks[k + 1]) = TimeEnd(chunks[k + 1])

(***************************************************************************)
(* Claims about create_concat_file (checked under SpecConcat).             *)
(***************************************************************************)
\* the frame lines of an output
FrameLines(stdout) == {p \in 1..Len(stdout) : stdout[p].kind = "frame"}

Max(S) == CHOOSE x \in S : \A y \in S : y <= x

\* the hash of the final frame a call reported; "None" when it reported no frame
FinalFrameHash(out) ==
    IF out.raised \/ FrameLines(out.stdout) = {} THEN "None"
    ELSE out.stdout[Max(FrameLines(out.stdout))].md5

\* the time base in force on line p: that of the last #tb line before it, else 1/1
TimeBaseAt(stdout, p) ==
    LET tbs == {q \in 1..(p - 1) : stdout[q].kind = "tb"}
    IN  IF tbs = {} THEN <<1, 1>> ELSE <<stdout[Max(tbs)].a, stdout[Max(tbs)].b>>

\* the frames of cur whose hash is the final frame hash of prev
Matches(prev, cur) ==
    {p \in FrameLines(cur.stdout) : cur.stdout[p].md5 = FinalFrameHash(prev)}

\* the presentation time of the last frame of cur that matches, else 0
LastMatchTime(prev, cur) ==
    IF Matches(prev, cur) = {} THEN Zero
    ELSE LET p == Max(Matches(prev, cur))
             tb == TimeBaseAt(cur.stdout, p)
         IN  PtsTime(cur.stdout[p].a, tb[1], tb[2])

\* the last iteration of the loop scanned a result and went on
ScannedLast == cc.pos # "raised" /\ cc.n >= 1 /\ ~last_out.raised

\* C6 as stated: for the last two videos scanned, the second's inpoint is 0
\* when none of its frames has the first's final frame hash, and else the time
\* of the last of its frames that has it.
C6_Original_InpointIsLastMatchOfPredecessor ==
    (ScannedLast /\ cc.n >= 2) =>
        Last(cc.records)[2] = LastMatchTime(prev_out, last_out)

\* C6 where the code agrees: the same, for a first video whose call returned
\* at least one frame line.
C6_InpointIsLastMatchWhenPredecessorHasFrames ==
    (ScannedLast /\ cc.n >= 2 /\ FinalFrameHash(prev_out) # "None") =>
        Last(cc.records)[2] = LastMatchTime(prev_out, last_out)

\* C6 witness: two frames of the second video have the first's final frame
\* hash, and the inpoint is the time of the later one.
C6_Witness ==
    /\ ScannedLast /\ cc.n >= 2
    /\ Cardinality(Matches(prev_out, last_out)) = 2
    /\ Last(cc.records)[2] = <<2, 1>>

\* C6 failing input: three videos; the first reports a frame of hash "a", the
\* call for the second exits non-zero and reports no frame, the third reports
\* a frame of hash "a" on its second line: the third is listed with the time of
\* that frame as inpoint, although the second has no final frame hash.
C6_FailingInput ==
    /\ ScannedLast /\ cc.n = 3
    /\ ~prev_out.raised /\ prev_out.returncode # 0 /\ prev_out.stdout = <<>>
    /\ last_out.stdout = <<FrameLine(1, "b"), FrameLine(2, "a")>>
    /\ cc.records[1][2] = Zero
    /\ Last(cc.records)[2] = <<2, 1>>

\* C9 as stated: a video whose fingerprint call exits non-zero is added to the
\* trim list, at any position, with inpoint 0 when no frame line was read, and
\* the call of create_concat_file goes on.
C9_Original_FailedFingerprintStillListed ==
    (cc.pos # "entry" /\ ~last_out.raised /\ last_out.returncode # 0) =>
        /\ cc.pos # "raised"
        /\ cc.records # <<>>
        /\ Last(cc.records)[1] = VideoPath(videos[cc.n])
        /\ (FrameLines(last_out.stdout) = {} => Last(cc.records)[2] = Zero)

\* C9 where the code agrees: the same, for every video but the first.
C9_FailedFingerprintListedAfterFirst ==
    (cc.pos # "entry" /\ ~last_out.raised /\ last_out.returncode # 0
        /\ (cc.n >= 2 \/ (cc.pos = "raised" /\ cc.n >= 1))) =>
        /\ cc.pos # "raised"
        /\ cc.records # <<>>
        /\ Last(cc.records)[1] = VideoPath(videos[cc.n])
        /\ (FrameLines(last_out.stdout) = {} => Last(cc.records)[2] = Zero)

\* C9 witness: the second video's call exits non-zero with no frame line and
\* the video is listed with inpoint 0.
C9_Witness ==
    /\ cc.pos = "loop" /\ cc.n = 2
    /\ last_out.returncode # 0 /\ FrameLines(last_out.stdout) = {}
    /\ Len(cc.records) = 2 /\ cc.records[2] = <<VideoPath(videos[2]), Zero>>

\* C9 failing input: the call for the first video of a list exits non-zero
\* and reports no frame line: an exception leaves create_concat_file and no
\* video is listed.
C9_FailingInput ==
    /\ cc.pos = "raised" /\ cc.n = 0
    /\ ~last_out.raised /\ last_out.returncode # 0
    /\ FrameLines(last_out.stdout) = {}
    /\ cc.records = <<>>

(***************************************************************************)
(* Claims about whole runs (checked under Spec).                           *)
(***************************************************************************)
\* the chunks of the source directory, as every run computes them
RunChunks == CreateChunks(files, options)

\* the lists of a run: a chunk and a camera
Lists == {[chunk |-> c, camera |-> k] : c \in 1..Len(RunChunks), k \in {"F", "R"}}

ListVideos(l) == VideosOf(RunChunks[l.chunk], l.camera)
ListConcat(l) ==
    ConcatFilename(TimeStart(RunChunks[l.chunk]), TimeEnd(RunChunks[l.chunk]), l.camera)
ListOutput(l) ==
    OutputFilename(TimeStart(RunChunks[l.chunk]), TimeEnd(RunChunks[l.chunk]), l.camera)

\* the current run logged op for list l
Logged(op, l) == [run |-> run_no, op |-> op, chunk |-> l.chunk, camera |-> l.camera] \in log

\* list a comes before list b in process_chunks
ListBefore(a, b) ==
    \/ a.chunk < b.chunk
    \/ a.chunk = b.chunk /\ a.camera = "F" /\ b.camera = "R"

\* process_videos has returned for list l in the current run
Processed(l) ==
    /\ Logged("process_videos", l)
    /\ \/ pc = "cleanup"
       \/ pc \in {"videos", "output"} /\ ListBefore(l, pos)

\* the lists longer than concat_threshold
LongLists == {l \in Lists : Len(ListVideos(l)) > options.concat_threshold}

\* the manifest and the output file of every long list were there when the
\* current run started
AllDerivedPresentBefore ==
    \A l \in LongLists : ListConcat(l) \in before.work /\ ListOutput(l) \in before.output

\* the current run wrote a manifest or an output file
WroteDerived == \E e \in log : e.op \in {"manifest", "output"}

C8_MergeFailureDoesNotAbort ==
    \A l \in Lists :
        (mode = "run" /\ Logged("merge_failed", l)) =>
            /\ pc \in {"videos", "output", "cleanup", "raised"}
            /\ pc \in {"videos", "output", "raised"} => ListBefore(l, pos)
            /\ pc = "cleanup" => \A k \in Lists : Logged("process_videos", k)

\* C8 witness: the merge of the front list of the first chunk exited non-zero,
\* and the rear list of that chunk and the front list of the second chunk were
\* merged after it.
C8_Witness ==
    /\ mode = "run" /\ pc = "cleanup"
    /\ Len(chunks) >= 2
    /\ Logged("merge_failed", [chunk |-> 1, camera |-> "F"])
    /\ Logged("output", [chunk |-> 1, camera |-> "R"])
    /\ ~Logged("merge_failed", [chunk |-> 1, camera |-> "R"])
    /\ Logged("output", [chunk |-> 2, camera |-> "F"])
    /\ ~Logged("merge_failed", [chunk |-> 2, camera |-> "F"])

\* the files of a directory that the step creates or changes
Written(dir, dirNext) ==
    {f \in DOMAIN dirNext : f \notin DOMAIN dir \/ dirNext[f] # dir[f]}

\* C11: a step of process_chunks writes no file but the manifest and the
\* output file of the current list and removes none; it writes the manifest
\* only when no_output is off and the manifest is not there or overwrite is
\* set; it calls the merge and writes the output file only when no_output is
\* off and the output file is not there or overwrite is set.
C11_WriteGating ==
    [][(mode = "run" /\ pc \in {"videos", "output"}) =>
          /\ DOMAIN workdir \subseteq DOMAIN workdir'
          /\ DOMAIN outputdir \subseteq DOMAIN outputdir'
          /\ Written(workdir, workdir') \subseteq {CurrentConcat}
          /\ Written(outputdir, outputdir') \subseteq {CurrentOutput}
          /\ (Written(workdir, workdir') # {} \/ Event("manifest") \in log' \ log) =>
                /\ ~options.no_output
                /\ CurrentConcat \notin DOMAIN workdir \/ options.overwrite
          /\ (Written(outputdir, outputdir') # {} \/ Event("merge") \in log' \ log) =>
                /\ ~options.no_output
                /\ CurrentOutput \notin DOMAIN outputdir \/ options.overwrite
      ]_vars

\* C11 witness: a second run with overwrite and no_output off found the
\* manifest of a long list but not its output file: it left the manifest as it
\* was and merged.
C11_Witness ==
    /\ mode = "run" /\ run_no = 2 /\ pc = "cleanup"
    /\ ~options.overwrite /\ ~options.no_output
    /\ \E l \in LongLists :
          /\ ListConcat(l) \in before.work
          /\ ListOutput(l) \notin before.output
          /\ ~Logged("manifest", l)
          /\ Logged("output", l)

\* C12: in a run that finds the source, work or output directory missing,
\* the only step is the exit at the start: create_chunks is not called, no
\* fingerprint or merge call is made, and no file of the work or output
\* directory is written or deleted.
C12_MissingDirectoryExitsAtOnce ==
    [][(mode = "run" /\ run_no' = run_no /\ ~(dirs.source /\ dirs.work /\ dirs.output)) =>
          /\ pc = "start" /\ pc' = "exit"
          /\ UNCHANGED <<chunks, workdir, outputdir, log, today>>
      ]_vars

\* C12 witness: the second run found a directory missing and has exited; the
\* source directory holds recordings and the first run left derived files.
C12_Witness ==
    /\ mode = "run" /\ run_no = 2 /\ pc = "exit"
    /\ ~dirs.work
    /\ Len(files) > 0
    /\ chunks = <<>> /\ log = {}
    /\ DOMAIN workdir # {} /\ DOMAIN outputdir # {}

(***************************************************************************)
(* Claims about cleanup_files (checked under SpecSweep).                   *)
(***************************************************************************)
\* the entries of the listing the loop has handled
Swept == {files[i] : i \in 1..sweep.n}

\* the age in days of a derived file on the day of the sweep
Age(f) == today - f[1][1]

\* C13 as stated: of the files handled whose name matches, one whose session
\* started exactly retention days before today is there, and one whose session
\* started retention + 1 days or more before today is gone; an entry whose
\* name does not match is there.
C13_Original_ExpiredFileIsDeleted ==
    mode = "sweep" =>
        \A f \in Swept :
            /\ ~PatternMatches(f) => f \in DOMAIN workdir
            /\ (PatternMatches(f) /\ Age(f) = options.retention) => f \in DOMAIN workdir
            /\ (PatternMatches(f) /\ Age(f) >= options.retention + 1) =>
                  (f \in DOMAIN workdir => workdir[f] = IsDirectory)

\* C13 amended: the same, but a file whose session started retention + 1 days
\* or more before today is gone unless os.remove raised for it; entries not
\* yet handled are there.
C13_RetentionBoundary ==
    mode = "sweep" =>
        /\ \A f \in Swept :
              /\ ~PatternMatches(f) => f \in DOMAIN workdir
              /\ (PatternMatches(f) /\ Age(f) <= options.retention) => f \in DOMAIN workdir
              /\ (PatternMatches(f) /\ Age(f) >= options.retention + 1) =>
                    \/ f \notin DOMAIN workdir
                    \/ f \in sweep.failed
                    \/ workdir[f] = IsDirectory
        /\ \A i \in (sweep.n + 1)..Len(files) : files[i] \in DOMAIN workdir
        /\ sweep.failed \subseteq DOMAIN workdir

\* C13 witness: the sweep is over; the file of the session that started
\* retention + 1 days before today is gone, the file of the session that
\* started retention days before today and the recording are there.
C13_Witness ==
    /\ mode = "sweep" /\ sweep.n = Len(files) /\ Len(files) = Len(SweepNames)
    /\ sweep.failed = {}
    /\ Age(SweepNames[1]) = options.retention + 1
    /\ Age(SweepNames[4]) = options.retention
    /\ SweepNames[1] \notin DOMAIN workdir
    /\ SweepNames[4] \in DOMAIN workdir /\ workdir[SweepNames[4]] = IsFile
    /\ SweepNames[3] \in DOMAIN workdir /\ workdir[SweepNames[3]] = IsFile

(***************************************************************************)
(* Further claims about create_chunks (checked under SpecChunks).          *)
(***************************************************************************)
\* the chunks of cs one after the other
RECURSIVE Flatten(_)
Flatten(cs) == IF Len(cs) = 0 THEN <<>> ELSE cs[1] \o Flatten(Tail(cs))

\* C14: after every iteration of create_chunks every chunk is non-empty, the
\* timestamps inside every chunk are non-decreasing, and the chunks one after
\* the other are the recordings read so far, in the order read.
C14_ChunksPartitionInput ==
    mode = "chunks" =>
        /\ \A k \in 1..Len(chunks) : Len(chunks[k]) > 0
        /\ \A k \in 1..Len(chunks) :
              \A i \in 1..(Len(chunks[k]) - 1) :
                  chunks[k][i].datetime <= chunks[k][i + 1].datetime
        /\ Flatten(chunks) = files

\* C14 witness: four recordings read, in two or more chunks, one of them with
\* two recordings of one timestamp and a later one.
C14_Witness ==
    /\ mode = "chunks" /\ Len(files) = MaxRecs /\ Len(chunks) >= 2
    /\ \E k \in 1..Len(chunks) :
          /\ Len(chunks[k]) >= 3
          /\ chunks[k][1].datetime = chunks[k][2].datetime
          /\ chunks[k][2].datetime < chunks[k][3].datetime

(***************************************************************************)
(* Further claims about create_concat_file (checked under SpecConcat).     *)
(***************************************************************************)
\* an iteration of the for loop has ended and the function has gone on
AfterIteration == cc.pos \in {"loop", "returned"} /\ cc.n >= 1

\* C15 as stated: after the iteration for a video, md5_last_frame is the hash
\* of the final frame that video's call reported, and None when the call
\* failed or reported no frame.
C15_Original_LastFrameHashIsOwn ==
    AfterIteration => cc.md5_last_frame = FinalFrameHash(last_out)

\* C15 where the code agrees: the same, for a video whose call reported at
\* least one frame line.
C15_LastFrameHashIsOwnWhenFramesReported ==
    (AfterIteration /\ FinalFrameHash(last_out) # "None") =>
        cc.md5_last_frame = FinalFrameHash(last_out)

\* C15 failing input: the first video reports a frame of hash "a", the call
\* for the second exits non-zero and reports no frame: md5_last_frame is "a",
\* the first video's hash, after the second video.
C15_FailingInput ==
    /\ AfterIteration /\ cc.n = 2
    /\ FinalFrameHash(prev_out) = "a"
    /\ ~last_out.raised /\ last_out.returncode # 0 /\ last_out.stdout = <<>>
    /\ cc.md5_last_frame = "a"

\* create_concat_file has written the manifest of the list
ManifestWritten ==
    /\ mode = "concat" /\ cc.pos = "returned" /\ cc.n = Len(videos)
    /\ ~options.no_output

\* C16 as stated: the trim list and the manifest written from it hold one
\* entry, a file line and an inpoint line, for every video of the list, in the
\* order of the list, whatever the calls did.
C16_Original_OneEntryPerVideo ==
    ManifestWritten =>
        /\ Len(cc.records) = Len(videos)
        /\ \A i \in 1..Len(cc.records) : cc.records[i][1] = VideoPath(videos[i])
        /\ Len(workdir[TheConcatFile(videos)]) = 2 * Len(videos)
        /\ \A i \in 1..Len(videos) :
              /\ workdir[TheConcatFile(videos)][2 * i - 1] = <<"file", VideoPath(videos[i])>>
              /\ workdir[TheConcatFile(videos)][2 * i][1] = "inpoint"

\* C16 where the code agrees: the manifest is written from the trim list, two
\* lines an entry; the entries are videos of the list in the order of the list,
\* each once, and the last video is among them unless its call raised.
C16_ManifestListsScannedVideosInOrder ==
    ManifestWritten =>
        /\ workdir[TheConcatFile(videos)] = Manifest(cc.records)
        /\ Len(workdir[TheConcatFile(videos)]) = 2 * Len(cc.records)
        /\ \A i \in 1..Len(cc.records) :
              \E j \in i..Len(videos) : cc.records[i][1] = VideoPath(videos[j])
        /\ \A i \in 1..(Len(cc.records) - 1) :
              \E j, k \in 1..Len(videos) :
                  /\ j < k
                  /\ cc.records[i][1] = VideoPath(videos[j])
                  /\ cc.records[i + 1][1] = VideoPath(videos[k])
        /\ ~last_out.raised => Last(cc.records)[1] = VideoPath(Last(videos))

\* C16 failing input: a list of two videos, the call for the first reports a
\* frame, the call for the second cannot be launched: the manifest written
\* holds the first video only.
C16_FailingInput ==
    /\ ManifestWritten /\ Len(videos) = 2
    /\ last_out.raised
    /\ workdir[TheConcatFile(videos)] =
          <<<<"file", VideoPath(videos[1])>>, <<"inpoint", Zero>>>>

(***************************************************************************)
(* Further claims about whole runs (checked under Spec).                   *)
(***************************************************************************)
\* C17 as stated (its safety part): no run that passed the directory checks
\* is ended by an exception before cleanup, whatever the fingerprint and the
\* merge calls do.
C17_Original_NoErrorEndsRunBeforeCleanup ==
    mode = "run" => pc # "raised"

\* C17 where the code agrees: an exception ends a run only out of the scan of
\* a list or out of a merge call; a run that is at cleanup has called
\* process_videos for every list of every chunk.
C17_RunAtCleanupProcessedEveryList ==
    /\ (mode = "run" /\ pc = "raised") =>
          \/ Logged("fingerprint", pos)
          \/ Logged("merge", pos)
    /\ (mode = "run" /\ pc = "cleanup") =>
          \A l \in Lists : Logged("process_videos", l)

\* C17 failing input: one front recording, concat_threshold 0; the run is
\* ended by an exception in the first list, before any manifest, merge or
\* cleanup.
C17_FailingInput ==
    /\ mode = "run" /\ run_no = 1 /\ pc = "raised"
    /\ Len(files) = 1 /\ options.concat_threshold = 0
    /\ pos = [chunk |-> 1, camera |-> "F"]
    /\ Logged("fingerprint", pos) /\ ~Logged("merge", pos)
    /\ workdir = NoFiles /\ outputdir = NoFiles

(***************************************************************************)
(* Claims about the steps of create_chunks (checked under SpecChunks).     *)
(***************************************************************************)
\* C18: an iteration of create_chunks on a recording either adds it at the
\* end of the last chunk or adds a new last chunk holding it alone; every
\* other chunk and every member the last chunk had stay as they were.
C18_ChunksAppendOnly ==
    [][mode = "chunks" =>
          LET obj == Last(files')
              n == Len(chunks)
          IN  \/ /\ n > 0
                 /\ Len(chunks') = n
                 /\ \A k \in 1..(n - 1) : chunks'[k] = chunks[k]
                 /\ Len(chunks'[n]) = Len(chunks[n]) + 1
                 /\ \A i \in 1..Len(chunks[n]) : chunks'[n][i] = chunks[n][i]
                 /\ Last(chunks'[n]) = obj
              \/ /\ Len(chunks') = n + 1
                 /\ \A k \in 1..n : chunks'[k] = chunks[k]
                 /\ chunks'[n + 1] = <<obj>>
      ]_vars

\* C18 witness: two chunks of two recordings each: the first was appended to,
\* then left behind, and the last was appended to.
C18_Witness ==
    /\ mode = "chunks"
    /\ Len(chunks) = 2
    /\ Len(chunks[1]) = 2 /\ Len(chunks[2]) = 2
    /\ chunks[1][1].datetime < chunks[1][2].datetime

\* the number of recordings in the first k chunks
ChunkEnd(k) == Len(Flatten(SubSeq(chunks, 1, k)))

\* the positions p of the listing with a chunk boundary between recording p
\* and recording p + 1
Boundaries == {ChunkEnd(k) : k \in 1..(Len(chunks) - 1)}

\* the whole seconds between recording p and recording p + 1
GapAfter(p) == files[p + 1].datetime - files[p].datetime

\* C19 as stated: with initial_impact set, a chunk boundary lies between two
\* adjacent recordings exactly when their timestamps differ by more than
\* consecutive_threshold seconds.
C19_Original_PureGapChunking ==
    (mode = "chunks" /\ options.initial_impact) =>
        \A p \in 1..(Len(files) - 1) :
            p \in Boundaries <=> GapAfter(p) > options.consecutive_threshold

\* C19 amended: with initial_impact set, a chunk boundary lies between two
\* adjacent recordings exactly when their timestamps differ, and differ by
\* more than consecutive_threshold seconds.
C19_GapChunkingOfDistinctTimestamps ==
    (mode = "chunks" /\ options.initial_impact) =>
        \A p \in 1..(Len(files) - 1) :
            p \in Boundaries <=>
                (GapAfter(p) > 0 /\ GapAfter(p) > options.consecutive_threshold)

\* C19 witness: with initial_impact set, a later non-impact recording within
\* the threshold follows an impact recording in its chunk, and a recording
\* further away than the threshold starts the next chunk.
C19_Witness ==
    /\ mode = "chunks" /\ options.initial_impact
    /\ options.consecutive_threshold = 1
    /\ Len(chunks) = 2
    /\ Len(chunks[1]) = 2
    /\ IsImpact(chunks[1][1]) /\ ~IsImpact(chunks[1][2])
    /\ chunks[1][2].datetime = chunks[1][1].datetime + 1
    /\ chunks[2][1].datetime = chunks[1][2].datetime + 2

(***************************************************************************)
(* The chunker of the design notes: instead of counting the impact members *)
(* of the current chunk on each append, it keeps an enumerated state of    *)
(* the current chunk, EMPTY, ALL_IMPACT or MIXED, updated on every append. *)
(***************************************************************************)
\* the state of the current chunk after obj is appended to a chunk in state st
StateAfterAppend(st, obj) ==
    IF st = "EMPTY"
    THEN (IF StartsWith(obj.type, "I") THEN "ALL_IMPACT" ELSE "MIXED")
    ELSE IF st = "ALL_IMPACT" /\ StartsWith(obj.type, "I") THEN "ALL_IMPACT"
    ELSE "MIXED"

EnumStart == [chunks |-> <<>>, state |-> "EMPTY"]

EnumAppendToCurrent(e, obj) ==
    [chunks |-> [e.chunks EXCEPT ![Len(e.chunks)] = Append(@, obj)],
     state |-> StateAfterAppend(e.state, obj)]

EnumNewChunk(e, obj) ==
    [chunks |-> Append(e.chunks, <<obj>>), state |-> StateAfterAppend("EMPTY", obj)]

EnumChunkAppend(e, obj, opts) ==
    LET last == e.chunks[Len(e.chunks)][Len(e.chunks[Len(e.chunks)])]
    IN  IF e.state = "EMPTY" THEN EnumNewChunk(e, obj)
        ELSE IF obj.datetime = last.datetime THEN EnumAppendToCurrent(e, obj)
        ELSE IF obj.datetime - last.datetime > opts.consecutive_threshold
             THEN EnumNewChunk(e, obj)
        ELSE IF opts.initial_impact THEN EnumAppendToCurrent(e, obj)
        ELSE IF e.state = "ALL_IMPACT" /\ ~StartsWith(obj.type, "I")
             THEN EnumNewChunk(e, obj)
        ELSE EnumAppendToCurrent(e, obj)

RECURSIVE EnumChunksFrom(_, _, _)
EnumChunksFrom(e, fs, opts) ==
    IF Len(fs) = 0 THEN e
    ELSE EnumChunksFrom(EnumChunkAppend(e, fs[1], opts), Tail(fs), opts)

EnumChunks(fs, opts) == EnumChunksFrom(EnumStart, fs, opts)

\* C20: after every iteration, the chunks of create_chunks are the chunks the
\* enumerated-state chunker makes of the recordings read so far, for every
\* threshold and either setting of initial_impact.
C20_CountChunkerIsEnumChunker ==
    mode = "chunks" => chunks = EnumChunks(files, options).chunks

\* C20 witness: with initial_impact off, a chunk that began with an impact
\* recording became mixed by a recording of the same timestamp, and a later
\* non-impact recording within the threshold was appended to it.
C20_Witness ==
    /\ mode = "chunks" /\ ~options.initial_impact
    /\ Len(chunks) = 1 /\ Len(chunks[1]) = 3
    /\ IsImpact(chunks[1][1]) /\ ~IsImpact(chunks[1][2]) /\ ~IsImpact(chunks[1][3])
    /\ chunks[1][1].datetime = chunks[1][2].datetime
    /\ chunks[1][2].datetime < chunks[1][3].datetime
    /\ EnumChunks(files, options).state = "MIXED"

====
